---- MODULE Spec2Model ----
(***************************************************************************)
(* Sprint planner (src/src/App.tsx, ImportExportModal): the planner        *)
(* document, its load/save/import/export codec, the item mutation          *)
(* handlers and the drag-end resolver, as a state machine.                 *)
(*                                                                         *)
(* Encoding of JavaScript values:                                          *)
(*   string that is always a string (label, name)  a TLA+ string           *)
(*   item text                                     a sequence of chunks,   *)
(*                                                 "" is << >>, template    *)
(*                                                 concatenation is \o      *)
(*   id handed out by generateId                   a natural number         *)
(*   number | "" | NaN | null (points fields)      [num |-> n], [str |-> ""]*)
(*                                                 [nan |-> TRUE],          *)
(*                                                 [null |-> TRUE]          *)
(*   array / null at a place typed Item[]          [arr |-> seq], JNull     *)
(*   optional property that is absent              key not in DOMAIN        *)
(*   text handed to JSON.parse                     [json |-> value] when it *)
(*                                                 parses, else a marker    *)
(***************************************************************************)
EXTENDS Integers, Sequences, FiniteSets, TLC

VARIABLES
    data,               \* React state `data` of SprintPlanner (PlannerData)
    crashed,            \* TRUE once a render threw (the React tree is gone)
    storage,            \* localStorage["sprint-planner-data"]
    domainColorsCache,  \* module-level singleton domainColorsCache
    colorStorage,       \* localStorage["sprint-planner-domain-colors"]
    storageFull,        \* TRUE while localStorage.setItem throws (quota reached)
    active,             \* the DndContext's active draggable (id and data)
    activeItem,         \* React state `activeItem` (DragData | null)
    nextId,             \* number of ids generateId has handed out, plus one
    lastOp              \* the handler that ran last, with its resolution

vars == <<data, crashed, storage, domainColorsCache, colorStorage, storageFull,
          active, activeItem, nextId, lastOp>>

---------------------------------------------------------------------------
(* Bounds of the model *)

\* ids generateId hands out in one run
MaxIds == 2
\* items the board holds before addItem / duplicateItem are no longer offered
MaxItems == 2

\* a velocity other than the default one, and a points value, that the
\* forms hold
Velocity == 40
Points == 5

---------------------------------------------------------------------------
(* Values *)

JNull == [null |-> TRUE]
JNum(n) == [num |-> n]
JStr(s) == [str |-> s]
JNaN == [nan |-> TRUE]
JArr(s) == [arr |-> s]
JObj(o) == [obj |-> o]
EmptyObject == [k \in {} |-> TRUE]

IsArr(v) == "arr" \in DOMAIN v
IsObj(v) == "obj" \in DOMAIN v
IsNum(v) == "num" \in DOMAIN v

\* Object.keys(GROUP_CONFIG), in declaration order
Groups ==
    <<"staging", "committed", "milestones", "risks", "dependencies",
      "willNotDo", "uncommitted">>

GroupIds == {Groups[i] : i \in 1..Len(Groups)}

\* a default document with a zero velocity
DEFAULT_DATA_ZeroVelocity ==
    [sprints |-> << [id |-> "s1", name |-> "S1", multiplier |-> 100],
                    [id |-> "s2", name |-> "S2", multiplier |-> 95],
                    [id |-> "s3", name |-> "S3", multiplier |-> 90],
                    [id |-> "s4", name |-> "S4", multiplier |-> 80],
                    [id |-> "s5", name |-> "S5", multiplier |-> 70] >>,
     velocity |-> 0,
     items |-> [g \in {"staging", "committed", "milestones", "risks",
                       "dependencies", "willNotDo", "uncommitted"} |-> [arr |-> << >>]]]

DEFAULT_DATA ==
    [sprints |-> << [id |-> "s1", name |-> "S1", multiplier |-> 100],
                    [id |-> "s2", name |-> "S2", multiplier |-> 95],
                    [id |-> "s3", name |-> "S3", multiplier |-> 90],
                    [id |-> "s4", name |-> "S4", multiplier |-> 80],
                    [id |-> "s5", name |-> "S5", multiplier |-> 70] >>,
     velocity |-> 34,
     items |-> [g \in GroupIds |-> JArr(<< >>)]]

\* { ...a, ...b }
Spread(a, b) ==
    [k \in (DOMAIN a) \cup (DOMAIN b) |-> IF k \in DOMAIN b THEN b[k] ELSE a[k]]

---------------------------------------------------------------------------
(* Texts and the JSON codec *)

Absent == [absent |-> TRUE]        \* getItem returned null
EmptyText == [empty |-> TRUE]      \* ""
Blank == [blank |-> TRUE]          \* only white space
NotJson == [bad |-> TRUE]          \* e.g. "{not json"
Json(v) == [json |-> v]            \* the text of the JSON value v

\* String.prototype.trim, as far as handleImport uses it
Trim(text) == IF text = Blank THEN EmptyText ELSE text

\* JSON.parse throws a SyntaxError
ParseThrows(text) == "json" \notin DOMAIN text

\* JSON.parse, where it does not throw
Parse(text) == text.json

\* JSON.stringify of a points value: NaN is written as null
PointsToJSON(p) == IF p = JNaN THEN JNull ELSE p

ItemToJSON(item) ==
    [k \in DOMAIN item |->
        IF k \in {"requiredPoints", "optionalPoints"}
        THEN PointsToJSON(item[k])
        ELSE item[k]]

GroupToJSON(v) ==
    IF IsArr(v)
    THEN JArr([i \in 1..Len(v.arr) |-> ItemToJSON(v.arr[i])])
    ELSE v

\* JSON.stringify(data)
Stringify(d) ==
    Json(JObj([sprints |-> d.sprints,
               velocity |-> d.velocity,
               items |-> JObj([g \in GroupIds |-> GroupToJSON(d.items[g])])]))

\* the own enumerable properties a spread takes from v
OwnProps(v) == IF IsObj(v) THEN v.obj ELSE EmptyObject

\* reading parsed.items throws a TypeError (parsed is null)
MergeThrows(parsed) == parsed = JNull

\* a merge whose spreads put the defaults last
MergeWithDefaults_DefaultsLast(parsed) ==
    LET own == OwnProps(parsed)
        parsedItems == IF "items" \in DOMAIN own THEN own.items ELSE JNull
        top == Spread(own, DEFAULT_DATA)
    IN [sprints |-> top.sprints,
        velocity |-> top.velocity,
        items |-> Spread(DEFAULT_DATA.items, OwnProps(parsedItems))]

\* { ...DEFAULT_DATA, ...parsed, items: { ...DEFAULT_DATA.items, ...parsed.items } }
MergeWithDefaults(parsed) ==
    LET own == OwnProps(parsed)
        parsedItems == IF "items" \in DOMAIN own THEN own.items ELSE JNull
        top == Spread(DEFAULT_DATA, own)
    IN [sprints |-> top.sprints,
        velocity |-> top.velocity,
        items |-> Spread(DEFAULT_DATA.items, OwnProps(parsedItems))]

loadFromStorage(saved) ==
    IF saved = Absent \/ saved = EmptyText THEN DEFAULT_DATA
    ELSE IF ParseThrows(saved) THEN DEFAULT_DATA
    ELSE IF MergeThrows(Parse(saved)) THEN DEFAULT_DATA
    ELSE MergeWithDefaults(Parse(saved))

---------------------------------------------------------------------------
(* Domain colors *)

ROYGBIV_COLORS ==
    <<"#ef4444", "#f97316", "#eab308", "#22c55e", "#3b82f6",
      "#6366f1", "#8b5cf6", "#ec4899", "#14b8a6", "#f59e0b">>

DefaultDomainColors == [k \in {"Unassigned"} |-> "#94a3b8"]

loadDomainColors(saved) ==
    IF saved = Absent \/ saved = EmptyText THEN DefaultDomainColors
    ELSE IF ParseThrows(saved) THEN DefaultDomainColors
    ELSE Parse(saved)

\* the index of the cycle taken from the size of the map after the assignment
getNextColor_SizeAfter(existingColors) ==
    LET usedColors == {existingColors[k] : k \in DOMAIN existingColors}
        free == {i \in 1..Len(ROYGBIV_COLORS) : ROYGBIV_COLORS[i] \notin usedColors}
    IN IF free # {}
       THEN ROYGBIV_COLORS[CHOOSE i \in free : \A j \in free : i <= j]
       ELSE ROYGBIV_COLORS[((Cardinality(DOMAIN existingColors) + 1)
                              % Len(ROYGBIV_COLORS)) + 1]

getNextColor(existingColors) ==
    LET usedColors == {existingColors[k] : k \in DOMAIN existingColors}
        free == {i \in 1..Len(ROYGBIV_COLORS) : ROYGBIV_COLORS[i] \notin usedColors}
    IN IF free # {}
       THEN ROYGBIV_COLORS[CHOOSE i \in free : \A j \in free : i <= j]
       ELSE ROYGBIV_COLORS[(Cardinality(DOMAIN existingColors) % Len(ROYGBIV_COLORS)) + 1]

\* the keys every object inherits from Object.prototype (among others):
\* domainColorsCache[key] is a function for them, which is truthy
InheritedKeys == {"toString", "constructor"}

\* if (domainColorsCache[domain]): an own entry, or an inherited key
HasColor(cache, domain) == domain \in DOMAIN cache \/ domain \in InheritedKeys

\* getDomainColor(domain) on the cache: the value returned and the cache
\* after the call; an unknown label gets the next color
getDomainColor(cache, domain) ==
    IF domain \in DOMAIN cache THEN [color |-> cache[domain], cache |-> cache]
    ELSE IF domain \in InheritedKeys THEN [color |-> "function", cache |-> cache]
    ELSE [color |-> getNextColor(cache),
          cache |-> Spread(cache, [k \in {domain} |-> getNextColor(cache)])]

\* a Set's insertion: append unless already a member
SetAdd(seen, x) ==
    IF \E i \in 1..Len(seen) : seen[i] = x THEN seen ELSE Append(seen, x)

\* if (item.domain)
HasDomain(item) == "domain" \in DOMAIN item /\ item.domain # ""

RECURSIVE DomainsOf(_, _)
DomainsOf(items, seen) ==
    IF Len(items) = 0 THEN seen
    ELSE DomainsOf(Tail(items),
                   IF HasDomain(Head(items))
                   THEN SetAdd(seen, Head(items).domain)
                   ELSE seen)

\* Object.values(data.items), visited group by group
RECURSIVE AllDomains(_, _, _)
AllDomains(d, i, seen) ==
    IF i > Len(Groups) THEN seen
    ELSE AllDomains(d, i + 1, DomainsOf(d.items[Groups[i]].arr, seen))

RECURSIVE AssignColors(_, _)
AssignColors(cache, domains) ==
    IF Len(domains) = 0 THEN cache
    ELSE AssignColors(
             IF HasColor(cache, Head(domains))
             THEN cache
             ELSE Spread(cache, [k \in {Head(domains)} |-> getNextColor(cache)]),
             Tail(domains))

\* items.forEach on a group that is not an array throws a TypeError
SyncThrows(d) == \E g \in GroupIds : ~IsArr(d.items[g])

\* a sync that builds the map anew from the labels of the document
syncDomainColors_Rebuild(cache, d) ==
    AssignColors(DefaultDomainColors, AllDomains(d, 1, << >>))

\* the cache after syncDomainColors(d), where it does not throw
syncDomainColors(cache, d) == AssignColors(cache, AllDomains(d, 1, << >>))

\* the cache after getDomainColor was called for each of the labels in turn
RECURSIVE RenderColors(_, _)
RenderColors(cache, labels) ==
    IF Len(labels) = 0 THEN cache
    ELSE RenderColors(getDomainColor(cache, Head(labels)).cache, Tail(labels))

\* rendering SprintPlanner throws (items.length of a group that is no array)
RenderThrows(d) == \E g \in GroupIds : ~IsArr(d.items[g])

---------------------------------------------------------------------------
(* Sequences *)

\* Array.prototype.findIndex by id, 1-based; 0 when nothing matches (-1)
FindIndex(items, id) ==
    IF \E i \in 1..Len(items) : items[i].id = id
    THEN CHOOSE i \in 1..Len(items) :
             /\ items[i].id = id
             /\ \A j \in 1..(i - 1) : items[j].id # id
    ELSE 0

\* items.filter((i) => i.id !== id)
FilterOut(items, id) ==
    LET Keep(i) == i.id # id IN SelectSeq(items, Keep)

RemoveAt(s, i) == SubSeq(s, 1, i - 1) \o SubSeq(s, i + 1, Len(s))

\* splice(i - 1, 0, x): x ends up at position i
InsertAt(s, i, x) == SubSeq(s, 1, i - 1) \o <<x>> \o SubSeq(s, i, Len(s))

\* a move that exchanges the two positions
arrayMove_Swap(array, from, to) ==
    [array EXCEPT ![from] = array[to], ![to] = array[from]]

\* arrayMove of @dnd-kit/sortable
arrayMove(array, from, to) == InsertAt(RemoveAt(array, from), to, array[from])

ItemsOf(d, g) == d.items[g].arr

\* an id no item carries (an item that is gone, still referred to)
StaleId == 0

\* the group replaced without the other groups being carried over
WithGroup_Alone(d, g, items) ==
    [d EXCEPT !.items = [h \in DOMAIN d.items |->
                            IF h = g THEN JArr(items) ELSE JArr(<< >>)]]

\* { ...prev, items: { ...prev.items, [g]: items } }
WithGroup(d, g, items) == [d EXCEPT !.items[g] = JArr(items)]

ItemCount(d) ==
    LET RECURSIVE Sum(_)
        Sum(i) == IF i > Len(Groups) THEN 0
                  ELSE Len(ItemsOf(d, Groups[i])) + Sum(i + 1)
    IN Sum(1)

---------------------------------------------------------------------------
(* Inputs: persisted and pasted texts, form contents *)

\* an item written by an older version: no optional fields
ItemA == [id |-> 101, text |-> <<"t">>, subItems |-> << >>]

ItemB ==
    [id |-> 102, text |-> <<"t">>,
     subItems |-> << [id |-> 201, text |-> <<"s">>] >>,
     epic |-> "E1", domain |-> "D1",
     requiredPoints |-> JNum(3), optionalPoints |-> JNum(0)]

ItemC == [id |-> 103, text |-> <<"t">>, subItems |-> << >>]

ItemD == [id |-> 104, text |-> << >>, subItems |-> << >>]

\* only one group, no sprints, no velocity
PartialDoc == Json(JObj([items |-> JObj([staging |-> JArr(<<ItemA>>)])]))

CompleteDoc ==
    Stringify([DEFAULT_DATA EXCEPT !.items["committed"] = JArr(<<ItemB>>)])

\* the same id in two groups
DupDoc ==
    Json(JObj([items |-> JObj([staging |-> JArr(<<ItemA>>),
                               committed |-> JArr(<<ItemA>>)])]))

\* a group that is null instead of an array
NullGroupDoc == Json(JObj([items |-> JObj([staging |-> JNull])]))

JsonTexts ==
    {Json(JNull), Json(JNum(5)), Json(JObj(EmptyObject)),
     PartialDoc, CompleteDoc, DupDoc, NullGroupDoc}

PersistedTexts == {Absent, EmptyText, NotJson} \cup JsonTexts

\* the Import button is disabled while the text area is blank
PastedTexts == {NotJson} \cup JsonTexts

PersistedColors == {Absent}

\* what the edit form holds when Save is pressed: the fields typed over the item
EditForms == { [text |-> <<"t">>] }

InlineTexts == { <<"t">> }

---------------------------------------------------------------------------
(* Statistics *)

\* typeof v === "number": NaN is a number too
IsNumber(v) == IsNum(v) \/ v = JNaN

\* a + b of two numbers: NaN when either is NaN
Plus(a, b) == IF a = JNaN \/ b = JNaN THEN JNaN ELSE JNum(a.num + b.num)

\* typeof item[field] === "number" ? item[field] : 0
PointsOf(item, field) ==
    IF field \in DOMAIN item /\ IsNumber(item[field]) THEN item[field] ELSE JNum(0)

\* items.reduce((sum, item) => sum + points, 0)
RECURSIVE SumPoints(_, _, _)
SumPoints(items, field, sum) ==
    IF Len(items) = 0 THEN sum
    ELSE SumPoints(Tail(items), field, Plus(sum, PointsOf(Head(items), field)))

\* data.items[groupId] || []
ItemsOrNone(d, groupId) ==
    IF d.items[groupId] = JNull THEN << >> ELSE d.items[groupId].arr

\* calcStats(groupId) for the document d
calcStats(d, groupId) ==
    [required |-> SumPoints(ItemsOrNone(d, groupId), "requiredPoints", JNum(0)),
     optional |-> SumPoints(ItemsOrNone(d, groupId), "optionalPoints", JNum(0))]

\* the percentage cut off instead of rounded
RoundPercent_Floor(a, b) == (100 * a) \div b

\* Math.round(a / b * 100) for integers a >= 0 and b > 0
RoundPercent(a, b) == (200 * a + b) \div (2 * b)

\* item.domain || "Unassigned"
DomainOrUnassigned(item) == IF HasDomain(item) THEN item.domain ELSE "Unassigned"

\* the points domainBreakdown counts for an item: those above 0 (NaN is not)
CountedPoints(item) ==
    LET points == PointsOf(item, "requiredPoints")
    IN IF IsNum(points) /\ points.num > 0 THEN points.num ELSE 0

\* the `domains` record after the forEach, as its entries in insertion order
RECURSIVE DomainPoints(_, _)
DomainPoints(items, domains) ==
    IF Len(items) = 0 THEN domains
    ELSE LET item == Head(items)
             name == DomainOrUnassigned(item)
             at == {i \in 1..Len(domains) : domains[i].name = name}
         IN DomainPoints(Tail(items),
               IF CountedPoints(item) = 0 THEN domains
               ELSE IF at = {}
                    THEN Append(domains, [name |-> name, points |-> CountedPoints(item)])
                    ELSE [i \in 1..Len(domains) |->
                             IF i \in at
                             THEN [name |-> name,
                                   points |-> domains[i].points + CountedPoints(item)]
                             ELSE domains[i]])

\* Array.prototype.sort((a, b) => b.points - a.points): stable, larger first
RECURSIVE SortByPoints(_)
SortByPoints(entries) ==
    IF Len(entries) = 0 THEN << >>
    ELSE LET first == CHOOSE i \in 1..Len(entries) :
                         /\ \A j \in 1..Len(entries) : entries[j].points <= entries[i].points
                         /\ \A j \in 1..(i - 1) : entries[j].points < entries[i].points
         IN <<entries[first]>> \o SortByPoints(RemoveAt(entries, first))

RECURSIVE Total(_)
Total(entries) ==
    IF Len(entries) = 0 THEN 0 ELSE Head(entries).points + Total(Tail(entries))

domainBreakdown(d) ==
    LET domains == DomainPoints(ItemsOrNone(d, "committed"), << >>)
        totalPoints == Total(domains)
    IN SortByPoints([i \in 1..Len(domains) |->
                        [name |-> domains[i].name,
                         points |-> domains[i].points,
                         percent |-> IF totalPoints > 0
                                     THEN RoundPercent(domains[i].points, totalPoints)
                                     ELSE 0]])

\* Math.round(n / m) for integers n and m > 0: the nearest integer, a half
\* going up (Math.round(-0.5) is -0, which displays and compares as 0)
MathRound(n, m) == (2 * n + m) \div (2 * m)

RECURSIVE SumCapacity(_, _, _)
SumCapacity(sprints, velocity, sum) ==
    IF Len(sprints) = 0 THEN sum
    ELSE SumCapacity(Tail(sprints), velocity, sum + velocity * Head(sprints).multiplier)

\* every sprint counted at the full velocity
totalPlanningPoints_NoMultiplier(d) ==
    SumCapacity([i \in 1..Len(d.sprints) |-> [multiplier |-> 100]], d.velocity, 0)

\* data.sprints.reduce((sum, s) => sum + data.velocity * (s.multiplier / 100), 0)
\* in hundredths of a point, so that a whole multiplier gives an integer
totalPlanningPoints(d) == SumCapacity(d.sprints, d.velocity, 0)

\* totalPlanningPoints > 0 ? Math.round(required / totalPlanningPoints * 100) : 0
committedPercent(d) ==
    LET required == calcStats(d, "committed").required
    IN IF totalPlanningPoints(d) > 0
       THEN IF required = JNaN THEN JNaN
            ELSE JNum(MathRound(10000 * required.num, totalPlanningPoints(d)))
       ELSE JNum(0)

\* Math.round(totalPlanningPoints - committedStats.required)
committedRemaining(d) ==
    LET required == calcStats(d, "committed").required
    IN IF required = JNaN THEN JNaN
       ELSE JNum(MathRound(totalPlanningPoints(d) - 100 * required.num, 100))

---------------------------------------------------------------------------
(* State *)

NoActive == [none |-> TRUE]
NoError == "none"
PasteError == "Please paste JSON data to import"
FormatError == "Invalid JSON format. Please check your data."

Idle == ~crashed /\ active = NoActive

\* localStorage.setItem(STORAGE_KEY, JSON.stringify(data)) in a try block:
\* the stored text afterwards; a throwing setItem is logged and leaves it
saveToStorage(stored, d) == IF storageFull THEN stored ELSE Stringify(d)

\* saveDomainColors(colors), likewise
saveDomainColors(stored, colors) == IF storageFull THEN stored ELSE Json(colors)

\* the labels the render asks getDomainColor for: the names of the domain
\* breakdown in the stats panel, then the domain badges of the items, group
\* by group
RenderedLabels(d) ==
    LET domainStats == domainBreakdown(d)
    IN [i \in 1..Len(domainStats) |-> domainStats[i].name] \o AllDomains(d, 1, << >>)

\* a commit whose refused write throws out of the effect and takes the page down
Commit_Throwing(newData) ==
    /\ data' = newData
    /\ IF RenderThrows(newData)
       THEN /\ crashed' = TRUE
            /\ UNCHANGED <<storage, domainColorsCache, colorStorage>>
       ELSE LET cache == syncDomainColors(
                             RenderColors(domainColorsCache, RenderedLabels(newData)),
                             newData)
            IN /\ crashed' = storageFull
               /\ storage' = saveToStorage(storage, newData)
               /\ domainColorsCache' = cache
               /\ colorStorage' =
                    IF cache # domainColorsCache
                    THEN saveDomainColors(colorStorage, cache)
                    ELSE colorStorage
    /\ UNCHANGED storageFull

\* a new `data` is rendered (getDomainColor saves each color it assigns),
\* then the effect of [data] runs: saveToStorage(data); syncDomainColors(data)
Commit(newData) ==
    /\ data' = newData
    /\ IF RenderThrows(newData)
       THEN /\ crashed' = TRUE
            /\ UNCHANGED <<storage, domainColorsCache, colorStorage>>
       ELSE LET cache == syncDomainColors(
                             RenderColors(domainColorsCache, RenderedLabels(newData)),
                             newData)
            IN /\ crashed' = FALSE
               /\ storage' = saveToStorage(storage, newData)
               /\ domainColorsCache' = cache
               /\ colorStorage' =
                    IF cache # domainColorsCache
                    THEN saveDomainColors(colorStorage, cache)
                    ELSE colorStorage
    /\ UNCHANGED storageFull

\* the handler returned `prev` (or never called setData): nothing is rendered
NoCommit ==
    UNCHANGED <<data, crashed, storage, domainColorsCache, colorStorage, storageFull>>

\* module load, useState initialiser of SprintPlanner, first render, effect
Construct(saved, savedColors) ==
    LET loaded == loadFromStorage(saved)
        colors == loadDomainColors(savedColors)
    IN /\ data' = loaded
       /\ IF SyncThrows(loaded) \/ RenderThrows(loaded)
          THEN /\ crashed' = TRUE
               /\ domainColorsCache' = colors
               /\ UNCHANGED <<storage, colorStorage>>
          ELSE LET cache == RenderColors(syncDomainColors(colors, loaded),
                                         RenderedLabels(loaded))
               IN /\ crashed' = FALSE
                  /\ domainColorsCache' = cache
                  /\ storage' = saveToStorage(storage, loaded)
                  /\ colorStorage' =
                       IF cache # colors
                       THEN saveDomainColors(colorStorage, cache)
                       ELSE colorStorage
       /\ UNCHANGED storageFull
       /\ active' = NoActive
       /\ activeItem' = NoActive
       /\ lastOp' = [op |-> "load", from |-> saved]

\* the page is opened on a storage that holds `saved` and `savedColors`
InitFrom(saved, savedColors) ==
    LET loaded == loadFromStorage(saved)
        colors == loadDomainColors(savedColors)
        broken == SyncThrows(loaded) \/ RenderThrows(loaded)
        cache == IF broken THEN colors
                 ELSE RenderColors(syncDomainColors(colors, loaded),
                                   RenderedLabels(loaded))
    IN /\ data = loaded
       /\ crashed = broken
       /\ storageFull = FALSE
       /\ domainColorsCache = cache
       /\ storage = IF broken THEN saved ELSE Stringify(loaded)
       /\ colorStorage =
            IF ~broken /\ cache # colors THEN Json(cache) ELSE savedColors
       /\ active = NoActive
       /\ activeItem = NoActive
       /\ nextId = 1
       /\ lastOp = [op |-> "load", from |-> saved]

Init ==
    \E saved \in PersistedTexts, savedColors \in PersistedColors :
        InitFrom(saved, savedColors)

\* the page is reloaded: everything is constructed again from storage
Reload ==
    /\ Construct(storage, colorStorage)
    /\ UNCHANGED nextId

---------------------------------------------------------------------------
(* Drag and drop *)

\* the data each sortable item registers: useSortable({ id, data: { item, groupId } })
DragDataOf(d, g, i) == [item |-> ItemsOf(d, g)[i], groupId |-> g]

NoOver == [kind |-> "none"]

\* what a drag can end over: nothing, a group's drop zone, or a sortable item
OverTargets(d) ==
    {NoOver}
    \cup {[kind |-> "group", id |-> g] : g \in GroupIds}
    \cup UNION {{[kind |-> "item", id |-> ItemsOf(d, g)[i].id, data |-> DragDataOf(d, g, i)]
                    : i \in 1..Len(ItemsOf(d, g))} : g \in GroupIds}

\* a drag start that takes the item out of its group
handleDragStart_Lift(g, i) ==
    /\ Idle
    /\ i \in 1..Len(ItemsOf(data, g))
    /\ active' = [id |-> ItemsOf(data, g)[i].id, data |-> DragDataOf(data, g, i)]
    /\ activeItem' = DragDataOf(data, g, i)
    /\ lastOp' = [op |-> "dragStart"]
    /\ Commit(WithGroup(data, g, RemoveAt(ItemsOf(data, g), i)))
    /\ UNCHANGED nextId

\* setActiveId(active.id); setActiveItem(active.data.current)
handleDragStart(g, i) ==
    /\ Idle
    /\ i \in 1..Len(ItemsOf(data, g))
    /\ active' = [id |-> ItemsOf(data, g)[i].id, data |-> DragDataOf(data, g, i)]
    /\ activeItem' = DragDataOf(data, g, i)
    /\ lastOp' = [op |-> "dragStart"]
    /\ NoCommit
    /\ UNCHANGED nextId

\* the kind of drop a drag ends with, by its target
DragResolution(act, over) ==
    IF over.kind = "none" THEN "noTarget"
    ELSE IF over.kind = "item" /\ over.id = act.id THEN "self"
    ELSE IF over.kind = "group"
         THEN IF act.data.groupId = over.id THEN "ownZone" ELSE "zone"
    ELSE IF act.data.groupId = over.data.groupId THEN "reorder" ELSE "insert"

\* a move that puts the item in front of the target group
MoveToGroup_Front(prev, sourceGroup, destGroup, item) ==
    [prev EXCEPT
        !.items[sourceGroup] = JArr(FilterOut(ItemsOf(prev, sourceGroup), item.id)),
        !.items[destGroup] = JArr(<<item>> \o ItemsOf(prev, destGroup))]

\* a move that carries only the id, the text and the sub-items of the item
MoveToGroup_Bare(prev, sourceGroup, destGroup, item) ==
    [prev EXCEPT
        !.items[sourceGroup] = JArr(FilterOut(ItemsOf(prev, sourceGroup), item.id)),
        !.items[destGroup] =
            JArr(Append(ItemsOf(prev, destGroup),
                        [id |-> item.id, text |-> item.text, subItems |-> item.subItems]))]

\* a move that forgets to take the item out of its source group
MoveToGroup_Copy(prev, sourceGroup, destGroup, item) ==
    [prev EXCEPT !.items[destGroup] = JArr(Append(ItemsOf(prev, destGroup), item))]

\* the updater handed to setData when the drop is on another group's zone
MoveToGroup(prev, sourceGroup, destGroup, item) ==
    [prev EXCEPT
        !.items[sourceGroup] = JArr(FilterOut(ItemsOf(prev, sourceGroup), item.id)),
        !.items[destGroup] = JArr(Append(ItemsOf(prev, destGroup), item))]

\* the updater handed to setData when the drop is on an item of the same group
ReorderInGroup(prev, sourceGroup, activeId, overId) ==
    LET items == ItemsOf(prev, sourceGroup)
        oldIndex == FindIndex(items, activeId)
        newIndex == FindIndex(items, overId)
    IN IF oldIndex = 0 \/ newIndex = 0 THEN prev
       ELSE WithGroup(prev, sourceGroup, arrayMove(items, oldIndex, newIndex))

\* an insertion that always appends
InsertInGroup_Append(prev, sourceGroup, destGroup, item, overId) ==
    [prev EXCEPT
        !.items[sourceGroup] = JArr(FilterOut(ItemsOf(prev, sourceGroup), item.id)),
        !.items[destGroup] = JArr(Append(ItemsOf(prev, destGroup), item))]

\* the updater handed to setData when the drop is on an item of another group
InsertInGroup(prev, sourceGroup, destGroup, item, overId) ==
    LET destItems == ItemsOf(prev, destGroup)
        newIndex == FindIndex(destItems, overId)
        newDestItems ==
            InsertAt(destItems,
                     IF newIndex = 0 THEN Len(destItems) + 1 ELSE newIndex,
                     item)
    IN [prev EXCEPT
           !.items[sourceGroup] = JArr(FilterOut(ItemsOf(prev, sourceGroup), item.id)),
           !.items[destGroup] = JArr(newDestItems)]

\* setActiveItem(null) as the handler's first statements, whatever the target
ActiveItemAfterDragEnd_Late(act, over) ==
    IF over.kind = "none" THEN act.data ELSE NoActive

\* the `activeItem` state handleDragEnd leaves
ActiveItemAfterDragEnd(act, over) == NoActive

\* the early returns without the check of the drop zone's group
DragEndReturnsEarly_NoZoneCheck(act, over) ==
    \/ over.kind = "none"
    \/ over.kind = "item" /\ act.id = over.id

\* the early returns of handleDragEnd: no target, the item itself, the zone of
\* the item's own group
DragEndReturnsEarly(act, over) ==
    \/ over.kind = "none"
    \/ over.kind = "item" /\ act.id = over.id
    \/ over.kind = "group" /\ act.data.groupId = over.id

\* handleDragEnd after the two setActive calls: `called` tells whether setData
\* is called with an updater that builds a new document, `data` is its result
DragEndUpdate(prev, act, over) ==
    LET sourceGroup == act.data.groupId
        bail == [called |-> FALSE, data |-> prev]
    IN IF DragEndReturnsEarly(act, over) THEN bail
       ELSE IF over.kind = "group"
            THEN [called |-> TRUE,
                  data |-> MoveToGroup(prev, sourceGroup, over.id, act.data.item)]
       ELSE IF sourceGroup = over.data.groupId
            THEN LET items == ItemsOf(prev, sourceGroup)
                 IN IF FindIndex(items, act.id) = 0 \/ FindIndex(items, over.id) = 0
                    THEN bail
                    ELSE [called |-> TRUE,
                          data |-> ReorderInGroup(prev, sourceGroup, act.id, over.id)]
       ELSE [called |-> TRUE,
             data |-> InsertInGroup(prev, sourceGroup, over.data.groupId,
                                    act.data.item, over.id)]

handleDragEnd(over) ==
    /\ ~crashed
    /\ active # NoActive
    /\ active' = NoActive
    /\ activeItem' = ActiveItemAfterDragEnd(active, over)
    /\ LET res == DragResolution(active, over)
           update == DragEndUpdate(data, active, over)
       IN /\ lastOp' = IF res \in {"noTarget", "self", "ownZone"}
                       THEN [op |-> "dragEnd", res |-> res]
                       ELSE [op |-> "dragEnd", res |-> res,
                             dest |-> IF res = "zone" THEN over.id
                                      ELSE over.data.groupId,
                             overId |-> IF res = "zone" THEN StaleId ELSE over.id]
          /\ IF update.called THEN Commit(update.data) ELSE NoCommit
    /\ UNCHANGED nextId

---------------------------------------------------------------------------
(* Item handlers *)

\* an id generator that hands out the same id again
generateId_Reuse(n) == 1

\* generateId(): Date.now() and nine random base-36 digits; a value never
\* handed out before
generateId(n) == n

\* a new item that comes with a text
NewItem_Titled(id) ==
    [id |-> id, text |-> <<"t">>, subItems |-> << >>, epic |-> "", domain |-> "",
     requiredPoints |-> JStr(""), optionalPoints |-> JStr("")]

\* the item handleAddItem builds
NewItem(id) ==
    [id |-> id, text |-> << >>, subItems |-> << >>, epic |-> "", domain |-> "",
     requiredPoints |-> JStr(""), optionalPoints |-> JStr("")]

handleAddItem(groupId) ==
    /\ Idle
    /\ nextId <= MaxIds
    /\ ItemCount(data) < MaxItems
    /\ Commit(WithGroup(data, groupId,
                        Append(ItemsOf(data, groupId), NewItem(generateId(nextId)))))
    /\ nextId' = nextId + 1
    /\ lastOp' = [op |-> "addItem", group |-> groupId, id |-> nextId]
    /\ UNCHANGED <<active, activeItem>>

\* item.text ? `${item.text} (copy)` : ""
CopyText(text) == IF Len(text) > 0 THEN text \o <<" (copy)">> ELSE << >>

\* a clone that keeps the ids of the sub-items
DuplicateOf_SameSubIds(item, firstId) ==
    Spread(item, [id |-> generateId(firstId), text |-> CopyText(item.text)])

\* the clone; firstId is the first of the ids generateId hands out for it
DuplicateOf(item, firstId) ==
    Spread(item,
           [id |-> generateId(firstId),
            text |-> CopyText(item.text),
            subItems |-> [i \in 1..Len(item.subItems) |->
                             Spread(item.subItems[i], [id |-> generateId(firstId + i)])]])

handleDuplicateItem(groupId, i) ==
    /\ Idle
    /\ i \in 1..Len(ItemsOf(data, groupId))
    /\ LET item == ItemsOf(data, groupId)[i]
       IN /\ nextId + Len(item.subItems) <= MaxIds
          /\ ItemCount(data) < MaxItems
          /\ Commit(WithGroup(data, groupId,
                              Append(ItemsOf(data, groupId), DuplicateOf(item, nextId))))
          /\ nextId' = nextId + 1 + Len(item.subItems)
          /\ lastOp' = [op |-> "duplicateItem", group |-> groupId,
                        id |-> item.id, copy |-> nextId]
    /\ UNCHANGED <<active, activeItem>>

\* a reorder that moves the item to the end of the group, or to its front
ReorderItem_ToEnd(prev, groupId, itemId, direction) ==
    LET items == ItemsOf(prev, groupId)
        currentIndex == FindIndex(items, itemId)
    IN IF currentIndex = 0 THEN prev
       ELSE WithGroup(prev, groupId,
                      IF direction = "up"
                      THEN <<items[currentIndex]>> \o RemoveAt(items, currentIndex)
                      ELSE Append(RemoveAt(items, currentIndex), items[currentIndex]))

\* the updater of handleReorderItem
ReorderItem(prev, groupId, itemId, direction) ==
    LET items == ItemsOf(prev, groupId)
        currentIndex == FindIndex(items, itemId)
        newIndex == IF direction = "up" THEN currentIndex - 1 ELSE currentIndex + 1
    IN IF currentIndex = 0 THEN prev
       ELSE IF newIndex < 1 \/ newIndex > Len(items) THEN prev
       ELSE WithGroup(prev, groupId,
                      [items EXCEPT ![currentIndex] = items[newIndex],
                                    ![newIndex] = items[currentIndex]])

ReorderBails(prev, groupId, itemId, direction) ==
    LET items == ItemsOf(prev, groupId)
        currentIndex == FindIndex(items, itemId)
        newIndex == IF direction = "up" THEN currentIndex - 1 ELSE currentIndex + 1
    IN currentIndex = 0 \/ newIndex < 1 \/ newIndex > Len(items)

\* whether some item of the group carries the id
InGroup(d, groupId, itemId) ==
    \E i \in 1..Len(ItemsOf(d, groupId)) : ItemsOf(d, groupId)[i].id = itemId

\* the situation a reorder request meets
ReorderCase(d, groupId, itemId, direction) ==
    LET items == ItemsOf(d, groupId)
    IN IF ~InGroup(d, groupId, itemId) THEN "notFound"
       ELSE IF direction = "up" /\ items[1].id = itemId THEN "firstUp"
       ELSE IF direction = "down" /\ items[Len(items)].id = itemId THEN "lastDown"
       ELSE "swap"

\* the groups in which a handler is tried with the stale id
StaleGroups == {"staging", "committed"}

\* the ids a handler of the group is called with: those of the items the
\* group shows, and in some groups a stale one
IdsFor(d, groupId) ==
    (IF groupId \in StaleGroups THEN {StaleId} ELSE {})
    \cup {ItemsOf(d, groupId)[i].id : i \in 1..Len(ItemsOf(d, groupId))}

handleReorderItem(groupId, itemId, direction) ==
    /\ Idle
    /\ itemId \in IdsFor(data, groupId)
    /\ IF ReorderBails(data, groupId, itemId, direction)
       THEN NoCommit
       ELSE Commit(ReorderItem(data, groupId, itemId, direction))
    /\ lastOp' = IF ReorderCase(data, groupId, itemId, direction) = "swap"
                  THEN [op |-> "reorderItem", case |-> "swap", group |-> groupId,
                        id |-> itemId, direction |-> direction]
                  ELSE [op |-> "reorderItem",
                        case |-> ReorderCase(data, groupId, itemId, direction)]
    /\ UNCHANGED <<active, activeItem, nextId>>

\* an update that puts the given fields in the place of the item
UpdateItem_Replace(prev, groupId, itemId, updates) ==
    WithGroup(prev, groupId,
              [i \in 1..Len(ItemsOf(prev, groupId)) |->
                  IF ItemsOf(prev, groupId)[i].id = itemId
                  THEN updates
                  ELSE ItemsOf(prev, groupId)[i]])

\* the updater of handleUpdateItem(groupId)
UpdateItem(prev, groupId, itemId, updates) ==
    WithGroup(prev, groupId,
              [i \in 1..Len(ItemsOf(prev, groupId)) |->
                  IF ItemsOf(prev, groupId)[i].id = itemId
                  THEN Spread(ItemsOf(prev, groupId)[i], updates)
                  ELSE ItemsOf(prev, groupId)[i]])

\* what DraggableItem passes to onUpdate(item.id, ...) for the item it shows:
\* the inline text (when it differs), or the edit form (a whole item)
UpdatesFor(item) ==
    {[text |-> t] : t \in {t \in InlineTexts : t # item.text}}
    \cup {Spread(item, f) : f \in EditForms}

\* the items whose DraggableItem calls the group's onUpdate: those the group
\* shows, and a stale one
ItemsFor(d, groupId) ==
    (IF groupId \in StaleGroups THEN {NewItem(StaleId)} ELSE {})
    \cup {ItemsOf(d, groupId)[i] : i \in 1..Len(ItemsOf(d, groupId))}

handleUpdateItem(groupId, item, updates) ==
    /\ Idle
    /\ item \in ItemsFor(data, groupId)
    /\ Commit(UpdateItem(data, groupId, item.id, updates))
    /\ lastOp' = IF InGroup(data, groupId, item.id)
                  THEN [op |-> "updateItem", case |-> "found", group |-> groupId,
                        id |-> item.id, updates |-> updates]
                  ELSE [op |-> "updateItem", case |-> "notFound"]
    /\ UNCHANGED <<active, activeItem, nextId>>

\* a deletion that also drops the items after the deleted one
DeleteItem_Truncate(prev, groupId, itemId) ==
    LET items == ItemsOf(prev, groupId)
        index == FindIndex(items, itemId)
    IN IF index = 0 THEN prev
       ELSE WithGroup(prev, groupId, SubSeq(items, 1, index - 1))

\* the updater of handleDeleteItem(groupId)
DeleteItem(prev, groupId, itemId) ==
    WithGroup(prev, groupId, FilterOut(ItemsOf(prev, groupId), itemId))

handleDeleteItem(groupId, itemId) ==
    /\ Idle
    /\ itemId \in IdsFor(data, groupId)
    /\ Commit(DeleteItem(data, groupId, itemId))
    /\ lastOp' = IF InGroup(data, groupId, itemId)
                  THEN [op |-> "deleteItem", case |-> "found", group |-> groupId,
                        id |-> itemId]
                  ELSE [op |-> "deleteItem", case |-> "notFound"]
    /\ UNCHANGED <<active, activeItem, nextId>>

\* onVelocityChange of the SprintTable: parseInt(e.target.value) || 0
handleVelocityChange(velocity) ==
    /\ Idle
    /\ Commit([data EXCEPT !.velocity = velocity])
    /\ lastOp' = [op |-> "velocity", velocity |-> velocity]
    /\ UNCHANGED <<active, activeItem, nextId>>

\* SprintTable.updateSprint: the sprint of that id with the field replaced
updateSprint(sprints, id, field, value) ==
    [i \in 1..Len(sprints) |->
        IF sprints[i].id = id THEN [sprints[i] EXCEPT ![field] = value] ELSE sprints[i]]

\* SprintTable.removeSprint
removeSprint(sprints, id) == SelectSeq(sprints, LAMBDA s : s.id # id)

\* onSprintsChange: setData((prev) => ({ ...prev, sprints }))
handleSprintsChange(sprints) ==
    /\ Idle
    /\ Commit([data EXCEPT !.sprints = sprints])
    /\ lastOp' = [op |-> "sprints"]
    /\ UNCHANGED <<active, activeItem, nextId>>

---------------------------------------------------------------------------
(* Import and export *)

\* currentData={JSON.stringify(data, null, 2)}
exportDocument(d) == Stringify(d)

\* handleImportData reaches setData(newData)
ImportApplies(jsonString) ==
    /\ ~ParseThrows(jsonString)
    /\ ~MergeThrows(Parse(jsonString))

\* the document handleImportData hands to setData
ImportedData(jsonString) == MergeWithDefaults(Parse(jsonString))

\* handleImportData(jsonString): every exception is caught and logged
handleImportData(jsonString) ==
    IF ImportApplies(jsonString)
    THEN Commit(ImportedData(jsonString))
    ELSE NoCommit

\* a catch block that sets no message
ImportMessage_Silent(importText) ==
    IF Trim(importText) = EmptyText THEN PasteError ELSE NoError

\* the message handleImport leaves in the modal's `error` state
ImportMessage(importText) ==
    IF Trim(importText) = EmptyText THEN PasteError
    ELSE IF ParseThrows(importText) THEN FormatError
    ELSE NoError

\* handleImport of ImportExportModal, with importText in the text area; the
\* message it leaves is recorded with the step
handleImport(importText) ==
    /\ Idle
    /\ IF Trim(importText) = EmptyText \/ ParseThrows(importText)
       THEN NoCommit
       ELSE handleImportData(importText)
    /\ lastOp' = [op |-> "import", text |-> importText,
                  error |-> ImportMessage(importText)]
    /\ UNCHANGED <<active, activeItem, nextId>>

---------------------------------------------------------------------------
(* Specification *)

Directions == {"up", "down"}

DragStart ==
    ~crashed /\ \E g \in GroupIds, i \in 1..MaxItems : handleDragStart(g, i)

DragEnd ==
    ~crashed /\ \E over \in OverTargets(data) : handleDragEnd(over)

AddItem ==
    ~crashed /\ \E g \in GroupIds : handleAddItem(g)

DuplicateItemAction ==
    ~crashed /\ \E g \in GroupIds, i \in 1..MaxItems : handleDuplicateItem(g, i)

ReorderItemAction ==
    ~crashed /\ \E g \in GroupIds, dir \in Directions :
                   \E id \in IdsFor(data, g) : handleReorderItem(g, id, dir)

UpdateItemAction ==
    ~crashed /\ \E g \in GroupIds :
                   \E item \in ItemsFor(data, g) : \E updates \in UpdatesFor(item) : handleUpdateItem(g, item, updates)

DeleteItemAction ==
    ~crashed /\ \E g \in GroupIds : \E id \in IdsFor(data, g) : handleDeleteItem(g, id)

Import ==
    ~crashed /\ \E text \in PastedTexts : handleImport(text)

Next ==
    \/ DragStart
    \/ DragEnd
    \/ AddItem
    \/ DuplicateItemAction
    \/ ReorderItemAction
    \/ UpdateItemAction
    \/ DeleteItemAction
    \/ Import
    \/ Reload

Spec == Init /\ [][Next]_vars

---------------------------------------------------------------------------
(* Moves within and between longer groups *)

\* a document with a group of three items and a group of one
LongGroupDoc ==
    Stringify([DEFAULT_DATA EXCEPT
                  !.items["staging"] = JArr(<<ItemA, ItemC, ItemD>>),
                  !.items["committed"] = JArr(<<ItemB>>)])

\* the groups whose drop zone a drag is ended over
ZoneGroups == {"staging", "committed"}

\* a drag event whose active id is the id of no item of its group (a
\* reference to an item the group no longer shows)
StaleActive(g) ==
    [id |-> StaleId, data |-> [item |-> NewItem(StaleId), groupId |-> g]]

\* a drag event of the item of no group is under way
handleDragStartStale(g) ==
    /\ Idle
    /\ active' = StaleActive(g)
    /\ activeItem' = StaleActive(g).data
    /\ lastOp' = [op |-> "dragStart"]
    /\ NoCommit
    /\ UNCHANGED nextId

\* the targets of the drag events: the zones of two groups, the items
\* shown, and an item its group no longer shows
MoveTargets(d) ==
    {over \in OverTargets(d) : over.kind = "group" => over.id \in ZoneGroups}
    \cup {[kind |-> "item", id |-> StaleId,
           data |-> [item |-> NewItem(StaleId), groupId |-> g]] : g \in ZoneGroups}

DragStartLong ==
    ~crashed /\ \E g \in GroupIds :
                   \E i \in 1..Len(ItemsOf(data, g)) : handleDragStart(g, i)

DragStartStale ==
    ~crashed /\ \E g \in ZoneGroups : handleDragStartStale(g)

\* the stale event ends over an item of its own group
DragEndLong ==
    /\ ~crashed
    /\ active # NoActive
    /\ \E over \in MoveTargets(data) :
          /\ active.id = StaleId =>
                (over.kind = "item" /\ over.data.groupId = active.data.groupId)
          /\ handleDragEnd(over)

InitMoves == InitFrom(LongGroupDoc, Absent)

NextMoves ==
    \/ DragStartLong
    \/ DragStartStale
    \/ DragEndLong
    \/ ReorderItemAction
    \/ DeleteItemAction

SpecMoves == InitMoves /\ [][NextMoves]_vars

---------------------------------------------------------------------------
(* The export and import of edited documents *)

\* a document with its own sprint schedule and velocity; its items carry a
\* number, the empty string, or nothing as points
EditedDoc ==
    Stringify([sprints |-> << [id |-> "s1", name |-> "S1", multiplier |-> 50] >>,
               velocity |-> Velocity,
               items |-> [DEFAULT_DATA.items EXCEPT
                            !["staging"] = JArr(<<ItemA, NewItem(103)>>),
                            !["risks"] = JArr(<<ItemB>>)]])

EditedTexts == {Absent, PartialDoc, CompleteDoc, EditedDoc}

\* the points the edit form can hold when Save is pressed: e.target.value ?
\* parseInt(e.target.value) : "" gives a number, "" for an emptied field, and
\* NaN for an input such as ".5"
PointsForms ==
    {[requiredPoints |-> JNum(Points)], [requiredPoints |-> JStr("")],
     [requiredPoints |-> JNaN], [optionalPoints |-> JNum(0)]}

Velocities == {0, Velocity}

EditPoints ==
    ~crashed /\ \E g \in GroupIds :
                   \E item \in ItemsFor(data, g) : \E form \in PointsForms :
                       handleUpdateItem(g, item, Spread(item, form))

ChangeVelocity ==
    ~crashed /\ \E velocity \in Velocities : handleVelocityChange(velocity)

\* the text of the export tab is pasted into the import tab
ImportExport ==
    ~crashed /\ handleImport(exportDocument(data))

InitCodec == \E saved \in EditedTexts : InitFrom(saved, Absent)

NextCodec ==
    \/ EditPoints
    \/ ChangeVelocity
    \/ ImportExport
    \/ Reload

SpecCodec == InitCodec /\ [][NextCodec]_vars

---------------------------------------------------------------------------
(* The statistics of edited documents *)

ItemP == [id |-> 105, text |-> <<"t">>, subItems |-> << >>, requiredPoints |-> JNum(10)]

ItemQ ==
    [id |-> 106, text |-> <<"t">>, subItems |-> << >>, domain |-> "D1",
     requiredPoints |-> JNum(20), optionalPoints |-> JNum(5)]

\* a document with two committed items
CommittedDoc ==
    Stringify([DEFAULT_DATA EXCEPT !.items["committed"] = JArr(<<ItemP, ItemQ>>)])

\* what the edit form holds for the points and the domain when Save is
\* pressed: the points of PointsForms, a number below 0, a domain typed or
\* emptied
StatsForms ==
    PointsForms
    \cup {[requiredPoints |-> JNum(0 - Points)], [domain |-> ""], [domain |-> "D2"]}

EditStats ==
    ~crashed /\ \E item \in ItemsFor(data, "committed") : \E form \in StatsForms :
                   handleUpdateItem("committed", item, Spread(item, form))

InitStats == InitFrom(CommittedDoc, Absent)

NextStats ==
    \/ EditStats
    \/ Reload

SpecStats == InitStats /\ [][NextStats]_vars

(* The capacity of edited sprint schedules *)

\* a document with two sprints and two committed items of 30 points together
CapacityDoc ==
    Stringify([DEFAULT_DATA EXCEPT
                  !.sprints = << [id |-> "s1", name |-> "S1", multiplier |-> 100],
                                 [id |-> "s2", name |-> "S2", multiplier |-> 95] >>,
                  !.items["committed"] = JArr(<<ItemP, ItemQ>>)])

\* what parseFloat(e.target.value) || 0 gives for the multiplier typed: the
\* input's min and max do not stop a typed value below 0 or above 100
SprintMultipliers == {0, 88, 150, 0 - 100}

SprintIds(d) == {d.sprints[i].id : i \in 1..Len(d.sprints)}

UpdateSprint ==
    ~crashed /\ \E id \in SprintIds(data) : \E multiplier \in SprintMultipliers :
                   handleSprintsChange(updateSprint(data.sprints, id, "multiplier", multiplier))

RemoveSprint ==
    ~crashed /\ \E id \in SprintIds(data) :
                   handleSprintsChange(removeSprint(data.sprints, id))

InitCapacity == InitFrom(CapacityDoc, Absent)

NextCapacity ==
    \/ UpdateSprint
    \/ RemoveSprint
    \/ ChangeVelocity
    \/ DeleteItemAction

SpecCapacity == InitCapacity /\ [][NextCapacity]_vars

(* Domain colors and a storage that refuses writes *)

\* a document with an item that has a domain and one that has none
ColorDoc ==
    Stringify([DEFAULT_DATA EXCEPT
                  !.items["staging"] = JArr(<<ItemA>>),
                  !.items["committed"] = JArr(<<ItemQ>>)])

\* a document that brings a label of its own
LabelledDoc ==
    Stringify([DEFAULT_DATA EXCEPT
                  !.items["risks"] = JArr(<<[ItemB EXCEPT !.domain = "D4"]>>)])

\* the map an earlier session left after ten labels were given the ten
\* colors of the palette
FullPalette ==
    Spread(DefaultDomainColors,
           [k \in {"L0", "L1", "L2", "L3", "L4", "L5", "L6", "L7", "L8", "L9"} |->
               ROYGBIV_COLORS[
                  (CHOOSE i \in 1..Len(ROYGBIV_COLORS) :
                      k = <<"L0", "L1", "L2", "L3", "L4", "L5", "L6", "L7", "L8", "L9">>[i])]])

ColorTexts == {Absent, Json(FullPalette)}

\* the domain field of the edit form when Save is pressed
DomainForms == {[domain |-> ""], [domain |-> "D2"], [domain |-> "toString"]}

EditDomain ==
    ~crashed /\ \E g \in GroupIds :
                   \E item \in ItemsFor(data, g) : \E form \in DomainForms :
                       handleUpdateItem(g, item, Spread(item, form))

ImportLabelled ==
    ~crashed /\ handleImport(LabelledDoc)

\* the browser's storage reaches its quota, or gets room again
QuotaChange ==
    /\ storageFull' = ~storageFull
    /\ lastOp' = [op |-> "quota"]
    /\ UNCHANGED <<data, crashed, storage, domainColorsCache, colorStorage,
                   active, activeItem, nextId>>

InitColors == \E savedColors \in ColorTexts : InitFrom(ColorDoc, savedColors)

NextColors ==
    \/ EditDomain
    \/ ImportLabelled
    \/ QuotaChange
    \/ Reload

SpecColors == InitColors /\ [][NextColors]_vars

(* The shares of four domains *)

\* a document with four committed items of four domains ("Unassigned" among
\* them), of 1, 3, 1 and 3 points
SharesDoc ==
    Stringify([DEFAULT_DATA EXCEPT
                  !.items["committed"] =
                     JArr(<<Spread(ItemA, [domain |-> "D2", requiredPoints |-> JNum(1)]),
                            ItemB,
                            Spread(ItemC, [domain |-> "D3", requiredPoints |-> JNum(1)]),
                            Spread(ItemD, [requiredPoints |-> JNum(3)])>>)])

\* the points and the domain of the edit form when Save is pressed
SharesForms ==
    {[requiredPoints |-> JNum(1)], [requiredPoints |-> JNum(3)],
     [domain |-> "D1"], [domain |-> ""]}

EditShares ==
    ~crashed /\ \E item \in ItemsFor(data, "committed") : \E form \in SharesForms :
                   handleUpdateItem("committed", item, Spread(item, form))

InitShares == InitFrom(SharesDoc, Absent)

NextShares ==
    \/ EditShares
    \/ Reload

SpecShares == InitShares /\ [][NextShares]_vars

---------------------------------------------------------------------------
(* Vocabulary of the properties *)

\* the items of a group, none when the group is no array
GroupItems(d, g) == IF IsArr(d.items[g]) THEN d.items[g].arr ELSE << >>

\* all items of the document, group after group
AllItems(d) ==
    LET RECURSIVE From(_)
        From(i) == IF i > Len(Groups) THEN << >>
                   ELSE GroupItems(d, Groups[i]) \o From(i + 1)
    IN From(1)

\* the ids the document's items carry
IdSet(d) == LET all == AllItems(d) IN {all[i].id : i \in 1..Len(all)}

\* no two items of the document carry the same id
UniqueIds(d) ==
    LET all == AllItems(d)
    IN \A i, j \in 1..Len(all) : i # j => all[i].id # all[j].id

\* the groups in which some item carries the id
GroupsHolding(d, id) ==
    {g \in GroupIds : \E i \in 1..Len(GroupItems(d, g)) : GroupItems(d, g)[i].id = id}

\* the ids of a group's items, in order
IdSeq(d, g) == LET items == GroupItems(d, g) IN [i \in 1..Len(items) |-> items[i].id]

\* the step is a drag that ends by moving the item to another group
CrossGroupMove ==
    /\ lastOp'.op = "dragEnd"
    /\ lastOp'.res \in {"zone", "insert"}

---------------------------------------------------------------------------
(* C1 *)

---------------------------------------------------------------------------
(* C2 *)

\* the step reads, by an import or by a load of the persisted entry, a text
\* whose own items repeat an id
ReadsRepeatedId ==
    \/ /\ lastOp'.op = "import"
       /\ ImportApplies(lastOp'.text)
       /\ ~UniqueIds(ImportedData(lastOp'.text))
    \/ /\ lastOp'.op = "load"
       /\ ~UniqueIds(loadFromStorage(lastOp'.from))

\* the step leaves the ids of every group, position by position, as they were
KeepsIdsInPlace == \A g \in GroupIds : IdSeq(data', g) = IdSeq(data, g)

\* C2 as claimed: whatever the step (addItem, duplicateItem, updateItem,
\* deleteItem, reorderItem, a drag, importDocument), no two items of the
\* document have the same id afterwards, and updateItem changes no item's id.
C2_Original ==
    [][/\ UniqueIds(data) => UniqueIds(data')
       /\ lastOp'.op = "updateItem" => KeepsIdsInPlace]_vars

\* C2, amended: from a document whose item ids are pairwise distinct, every
\* addItem, duplicateItem, updateItem, deleteItem, reorderItem and drag, and
\* every import or load of a text whose own item ids are pairwise distinct,
\* yields a document whose item ids are pairwise distinct; and updateItem
\* changes no item's id, also when the update carries an id.
C2_UniqueIds ==
    [][/\ (UniqueIds(data) /\ ~ReadsRepeatedId) => UniqueIds(data')
       /\ lastOp'.op = "updateItem" => KeepsIdsInPlace]_vars

C2_Witness ==
    /\ lastOp.op = "updateItem"
    /\ lastOp.case = "found"
    /\ "id" \in DOMAIN lastOp.updates
    /\ UniqueIds(data)
    /\ Len(AllItems(data)) = 2

---------------------------------------------------------------------------
(* C3 *)

\* C3 as claimed: in every reachable state each of the seven group keys is
\* present in the items mapping and maps to a sequence of items, and sprints
\* and velocity are present.
C3_Original ==
    /\ DOMAIN data = {"sprints", "velocity", "items"}
    /\ DOMAIN data.items = GroupIds
    /\ \A g \in GroupIds : IsArr(data.items[g])

---------------------------------------------------------------------------
(* C4 *)

\* the points of an item are left out, the empty string, or a number
ValidPoints(item) ==
    \A k \in {"requiredPoints", "optionalPoints"} :
        k \in DOMAIN item => (item[k] = JStr("") \/ IsNum(item[k]))

\* a document as the data model describes it
ValidDoc(d) ==
    /\ \A g \in GroupIds : IsArr(d.items[g])
    /\ \A i \in 1..Len(AllItems(d)) : ValidPoints(AllItems(d)[i])

\* the step imports the text the export shows for the current document
ImportsOwnExport ==
    /\ lastOp'.op = "import"
    /\ lastOp'.text = exportDocument(data)

\* C4: importing the export of a valid document succeeds and yields a
\* document equal to it: same sprints, velocity, groups, order, ids, text,
\* points, and optional fields that are absent are absent afterwards.
C4_RoundTrip ==
    [][(ImportsOwnExport /\ ValidDoc(data)) =>
          /\ lastOp'.error = NoError
          /\ data' = data]_vars

C4_Witness ==
    /\ lastOp.op = "import"
    /\ lastOp.text = exportDocument(data)
    /\ data.velocity = 0
    /\ Len(data.sprints) = 1
    /\ \E i \in 1..Len(AllItems(data)) :
          /\ "requiredPoints" \notin DOMAIN AllItems(data)[i]
          /\ "optionalPoints" \in DOMAIN AllItems(data)[i]
    /\ \E i \in 1..Len(AllItems(data)) :
          /\ "requiredPoints" \in DOMAIN AllItems(data)[i]
          /\ AllItems(data)[i].requiredPoints = JNum(Points)

---------------------------------------------------------------------------
(* C5 *)

\* C5: an import of a text that is not valid JSON leaves a validation
\* message and leaves the document exactly as it was.
C5_InvalidImportRejected ==
    [][(lastOp'.op = "import" /\ ParseThrows(lastOp'.text)) =>
          /\ lastOp'.error \in {FormatError, PasteError}
          /\ data' = data]_vars

C5_Witness ==
    /\ lastOp.op = "import"
    /\ lastOp.text = NotJson
    /\ lastOp.error = FormatError
    /\ Len(AllItems(data)) > 0

---------------------------------------------------------------------------
(* C6 *)

\* C6 as claimed: an import of any text that is valid JSON succeeds, and the
\* document becomes the parsed value merged over the defaults as load()
\* merges it.
C6_Original ==
    [][(lastOp'.op = "import" /\ ~ParseThrows(lastOp'.text)) =>
          /\ lastOp'.error = NoError
          /\ data' = loadFromStorage(lastOp'.text)]_vars

---------------------------------------------------------------------------
(* C7 *)

\* the persisted entry is absent or does not parse
Unreadable(saved) == saved \in {Absent, EmptyText} \/ ParseThrows(saved)

\* the starter sprint schedule and seven empty groups
StarterDocument(d) ==
    /\ Len(d.sprints) = 5
    /\ [i \in 1..5 |-> d.sprints[i].name] = <<"S1", "S2", "S3", "S4", "S5">>
    /\ [i \in 1..5 |-> d.sprints[i].multiplier] = <<100, 95, 90, 80, 70>>
    /\ \A g \in GroupIds : d.items[g] = JArr(<< >>)

\* C7 as claimed: a load from an absent or unparseable entry gives the
\* starter schedule, velocity 0 and seven empty groups, and no error.
C7_Original ==
    (lastOp.op = "load" /\ Unreadable(lastOp.from)) =>
        /\ StarterDocument(data)
        /\ data.velocity = 0
        /\ ~crashed

\* C7, amended: a load from an absent or unparseable entry gives the starter
\* schedule, velocity 34 and seven empty groups, and no error.
C7_LoadDefaults ==
    (lastOp.op = "load" /\ Unreadable(lastOp.from)) =>
        /\ StarterDocument(data)
        /\ data.velocity = 34
        /\ ~crashed

C7_Witness ==
    /\ lastOp.op = "load"
    /\ lastOp.from = NotJson
    /\ StarterDocument(data)

---------------------------------------------------------------------------
(* C9 *)

\* C9: a drag that ends with no target leaves no active payload and leaves
\* the document as it was.
C9_CancelledDrag ==
    [][(lastOp'.op = "dragEnd" /\ lastOp'.res = "noTarget") =>
          /\ active' = NoActive
          /\ activeItem' = NoActive
          /\ data' = data]_vars

C9_Witness ==
    /\ lastOp.op = "dragEnd"
    /\ lastOp.res = "noTarget"
    /\ activeItem = NoActive
    /\ Len(AllItems(data)) > 0

---------------------------------------------------------------------------
(* C10 *)

\* C10: a drag that ends over the dragged item itself, or over the drop zone
\* of the item's own group, leaves the sequence of every group as it was.
C10_DropOnSelf ==
    [][(lastOp'.op = "dragEnd" /\ lastOp'.res \in {"self", "ownZone"}) =>
          \A g \in GroupIds : data'.items[g] = data.items[g]]_vars

C10_Witness ==
    /\ lastOp.op = "dragEnd"
    /\ lastOp.res = "ownZone"
    /\ Len(AllItems(data)) = 2

---------------------------------------------------------------------------
(* C11 *)

\* the items of a sequence that do not carry the id, in their order
Without(items, id) == SelectSeq(items, LAMBDA x : x.id # id)

\* the step is a drag that ends with the given kind of drop
DragEnds(res) == lastOp'.op = "dragEnd" /\ lastOp'.res = res

\* C11: a drag that ends over the zone of a group other than the source
\* group leaves the source group as it was without the dragged item, and the
\* target group as it was with the dragged item added as its last element.
C11_DropOnZone ==
    [][DragEnds("zone") =>
          /\ lastOp'.dest # active.data.groupId
          /\ GroupItems(data', active.data.groupId)
                = Without(GroupItems(data, active.data.groupId), active.id)
          /\ GroupItems(data', lastOp'.dest)
                = Append(GroupItems(data, lastOp'.dest), active.data.item)]_vars

C11_Witness ==
    /\ lastOp.op = "dragEnd"
    /\ lastOp.res = "zone"
    /\ Len(GroupItems(data, lastOp.dest)) = 3
    /\ \E g \in GroupIds \ {lastOp.dest} : Len(GroupItems(data, g)) > 0

---------------------------------------------------------------------------
(* C12 *)

\* the position of the first item that carries the id, 0 when there is none
PositionOf(items, id) ==
    LET at == {i \in 1..Len(items) : items[i].id = id}
    IN IF at = {} THEN 0 ELSE CHOOSE i \in at : \A j \in at : i <= j

\* C12: a drag that ends over another item of the dragged item's group puts
\* the dragged item at the position the target item had, and leaves the other
\* items of the group in their order (so the items between the two positions
\* shift by one); when the dragged id or the target id is not in the group
\* the document is left as it was.
C12_DropOnSibling ==
    [][DragEnds("reorder") =>
          LET g == active.data.groupId
              before == GroupItems(data, g)
              after == GroupItems(data', g)
              old == PositionOf(before, active.id)
              new == PositionOf(before, lastOp'.overId)
          IN IF old = 0 \/ new = 0
             THEN data' = data
             ELSE /\ Len(after) = Len(before)
                  /\ after[new] = before[old]
                  /\ Without(after, active.id) = Without(before, active.id)
                  /\ \A h \in GroupIds \ {g} : data'.items[h] = data.items[h]]_vars

\* the dragged item went from the first to the third position, or back
C12_Witness ==
    /\ lastOp.op = "dragEnd"
    /\ lastOp.res = "reorder"
    /\ IdSeq(data, "staging") \in {<<103, 104, 101>>, <<104, 101, 103>>}
    /\ lastOp.overId = 104

---------------------------------------------------------------------------
(* C13 *)

\* C13: a drag that ends over an item of another group leaves the source
\* group as it was without the dragged item, and puts the dragged item into
\* the target group at the position the target item had, the target item and
\* the items after it moving one position to the right; when the target id
\* is not in the target group the dragged item is added at the end.
C13_DropOnForeignItem ==
    [][DragEnds("insert") =>
          LET src == active.data.groupId
              before == GroupItems(data, lastOp'.dest)
              after == GroupItems(data', lastOp'.dest)
              new == PositionOf(before, lastOp'.overId)
          IN /\ lastOp'.dest # src
             /\ GroupItems(data', src) = Without(GroupItems(data, src), active.id)
             /\ IF new = 0
                THEN after = Append(before, active.data.item)
                ELSE /\ Len(after) = Len(before) + 1
                     /\ after[new] = active.data.item
                     /\ \A i \in 1..(new - 1) : after[i] = before[i]
                     /\ \A i \in new..Len(before) : after[i + 1] = before[i]]_vars

\* the dragged item came second of four, before the target item and one more
C13_Witness ==
    /\ lastOp.op = "dragEnd"
    /\ lastOp.res = "insert"
    /\ Len(GroupItems(data, lastOp.dest)) = 4
    /\ PositionOf(GroupItems(data, lastOp.dest), lastOp.overId) = 3

---------------------------------------------------------------------------
(* C14 *)

\* C14: reorderItem exchanges the item with its neighbour in the given
\* direction and leaves every other position of the group, and every other
\* group, as it was; when the item is first and the direction is up, when it
\* is last and the direction is down, and when the id is not in the group,
\* the document is left as it was.
C14_ReorderItem ==
    [][lastOp'.op = "reorderItem" =>
          IF lastOp'.case = "swap"
          THEN LET before == GroupItems(data, lastOp'.group)
                   i == PositionOf(before, lastOp'.id)
                   j == IF lastOp'.direction = "up" THEN i - 1 ELSE i + 1
               IN /\ i \in 1..Len(before)
                  /\ j \in 1..Len(before)
                  /\ GroupItems(data', lastOp'.group)
                        = [k \in 1..Len(before) |->
                              IF k = i THEN before[j]
                              ELSE IF k = j THEN before[i] ELSE before[k]]
                  /\ \A h \in GroupIds \ {lastOp'.group} :
                        data'.items[h] = data.items[h]
          ELSE /\ lastOp'.case \in {"firstUp", "lastDown", "notFound"}
               /\ data' = data]_vars

\* the first of three items went down one position
C14_Witness ==
    /\ lastOp.op = "reorderItem"
    /\ lastOp.case = "swap"
    /\ lastOp.direction = "down"
    /\ Len(GroupItems(data, lastOp.group)) = 3
    /\ PositionOf(GroupItems(data, lastOp.group), lastOp.id) = 2

---------------------------------------------------------------------------
(* C15 *)

\* the step is an addItem that adds one item at the end of its group, with
\* an id no item of the document carried, an empty text and no sub-items, and
\* leaves the other groups as they were
AddsOneItem ==
    LET before == GroupItems(data, lastOp'.group)
        after == GroupItems(data', lastOp'.group)
    IN /\ Len(after) = Len(before) + 1
       /\ SubSeq(after, 1, Len(before)) = before
       /\ after[Len(after)].id \notin IdSet(data)
       /\ after[Len(after)].text = << >>
       /\ after[Len(after)].subItems = << >>
       /\ \A h \in GroupIds \ {lastOp'.group} : data'.items[h] = data.items[h]

\* the item addItem added
Added == GroupItems(data', lastOp'.group)[Len(GroupItems(data', lastOp'.group))]

\* C15 as claimed: addItem appends exactly one item; it has a fresh id, an
\* empty text, no sub-items, and none of epic, domain, requiredPoints and
\* optionalPoints.
C15_Original ==
    [][lastOp'.op = "addItem" =>
          /\ AddsOneItem
          /\ DOMAIN Added = {"id", "text", "subItems"}]_vars

\* C15, amended: addItem appends exactly one item; it has a fresh id, an
\* empty text, no sub-items, and epic, domain, requiredPoints and
\* optionalPoints that are present and hold the empty string.
C15_AddItem ==
    [][lastOp'.op = "addItem" =>
          /\ AddsOneItem
          /\ DOMAIN Added = {"id", "text", "subItems", "epic", "domain",
                             "requiredPoints", "optionalPoints"}
          /\ Added.epic = ""
          /\ Added.domain = ""
          /\ Added.requiredPoints = JStr("")
          /\ Added.optionalPoints = JStr("")]_vars

\* addItem("staging") on a document without items
C15_Witness ==
    /\ lastOp.op = "addItem"
    /\ lastOp.group = "staging"
    /\ Len(AllItems(data)) = 1
    /\ Len(GroupItems(data, "staging")) = 1
    /\ GroupItems(data, "staging")[1].id = lastOp.id

---------------------------------------------------------------------------
(* C16 *)

\* item `after` is item `before` with exactly the fields of `updates` set
Merged(before, updates, after) ==
    /\ DOMAIN after = DOMAIN before \cup DOMAIN updates
    /\ \A f \in DOMAIN updates : after[f] = updates[f]
    /\ \A f \in DOMAIN before \ DOMAIN updates : after[f] = before[f]

\* C16: updateItem sets exactly the given fields of the item of the group
\* that carries the id, keeps its other fields and its position, and leaves
\* the other items, the other groups, the sprints and the velocity as they
\* were; when no item of the group carries the id, the document's content is
\* what it was.
C16_UpdateItem ==
    [][lastOp'.op = "updateItem" =>
          IF lastOp'.case = "found"
          THEN LET before == GroupItems(data, lastOp'.group)
                   after == GroupItems(data', lastOp'.group)
               IN /\ Len(after) = Len(before)
                  /\ \A k \in 1..Len(before) :
                        IF before[k].id = lastOp'.id
                        THEN Merged(before[k], lastOp'.updates, after[k])
                        ELSE after[k] = before[k]
                  /\ \A h \in GroupIds \ {lastOp'.group} :
                        data'.items[h] = data.items[h]
                  /\ data'.sprints = data.sprints
                  /\ data'.velocity = data.velocity
          ELSE data' = data]_vars

\* the text alone was given, for the second of two items
C16_Witness ==
    /\ lastOp.op = "updateItem"
    /\ lastOp.case = "found"
    /\ DOMAIN lastOp.updates = {"text"}
    /\ Len(GroupItems(data, lastOp.group)) = 2
    /\ GroupItems(data, lastOp.group)[2].id = lastOp.id
    /\ DOMAIN GroupItems(data, lastOp.group)[2] # DOMAIN GroupItems(data, lastOp.group)[1]

---------------------------------------------------------------------------
(* C17 *)

\* C17: deleteItem takes the item that carries the id out of the group, the
\* items before it keep their positions and the items after it move one
\* position to the left, and the other groups are left as they were; when no
\* item of the group carries the id, the document's content is what it was.
C17_DeleteItem ==
    [][lastOp'.op = "deleteItem" =>
          IF lastOp'.case = "found"
          THEN LET before == GroupItems(data, lastOp'.group)
                   after == GroupItems(data', lastOp'.group)
                   i == PositionOf(before, lastOp'.id)
               IN /\ i \in 1..Len(before)
                  /\ PositionOf(after, lastOp'.id) = 0
                  /\ after = [k \in 1..(Len(before) - 1) |->
                                 IF k < i THEN before[k] ELSE before[k + 1]]
                  /\ \A h \in GroupIds \ {lastOp'.group} :
                        data'.items[h] = data.items[h]
          ELSE data' = data]_vars

\* the second of three items was deleted
C17_Witness ==
    /\ lastOp.op = "deleteItem"
    /\ lastOp.case = "found"
    /\ lastOp.id = 103
    /\ IdSeq(data, lastOp.group) = <<101, 104>>

---------------------------------------------------------------------------
(* C18 *)

\* `clone` is a copy of `orig` under new ids: the text is followed by
\* " (copy)" unless it is empty, every sub-item keeps its text and has
\* another id, and the other fields are those of `orig`
CloneOf(orig, clone) ==
    /\ clone.id # orig.id
    /\ clone.text = IF orig.text = << >> THEN << >> ELSE orig.text \o <<" (copy)">>
    /\ Len(clone.subItems) = Len(orig.subItems)
    /\ \A i \in 1..Len(orig.subItems) :
          /\ clone.subItems[i].id # orig.subItems[i].id
          /\ clone.subItems[i].id \notin {orig.subItems[j].id : j \in 1..Len(orig.subItems)}
          /\ clone.subItems[i].text = orig.subItems[i].text
    /\ DOMAIN clone = DOMAIN orig
    /\ \A f \in DOMAIN orig \ {"id", "text", "subItems"} : clone[f] = orig[f]

\* C18: duplicateItem adds one clone at the end of the group and leaves the
\* items the group had, the original among them, and the other groups as they
\* were; the clone's id is the id of no item of the document, its sub-items
\* have new ids, its text is the original's followed by " (copy)", or empty
\* when the original's is empty, and its other fields are the original's.
C18_DuplicateItem ==
    [][lastOp'.op = "duplicateItem" =>
          LET before == GroupItems(data, lastOp'.group)
              after == GroupItems(data', lastOp'.group)
              orig == before[PositionOf(before, lastOp'.id)]
          IN /\ PositionOf(before, lastOp'.id) > 0
             /\ Len(after) = Len(before) + 1
             /\ SubSeq(after, 1, Len(before)) = before
             /\ after[Len(after)].id \notin IdSet(data)
             /\ CloneOf(orig, after[Len(after)])
             /\ \A h \in GroupIds \ {lastOp'.group} :
                   data'.items[h] = data.items[h]]_vars

\* an item with a text, a sub-item, an epic, a domain and points was cloned
C18_Witness ==
    /\ lastOp.op = "duplicateItem"
    /\ lastOp.id = 102
    /\ LET items == GroupItems(data, lastOp.group)
       IN /\ Len(items) = 2
          /\ items[2].text = <<"t", " (copy)">>
          /\ Len(items[2].subItems) = 1
          /\ items[2].requiredPoints = JNum(3)

---------------------------------------------------------------------------
(* C19 *)

\* every committed item with required points above 0 is counted by the
\* breakdown, under its domain or under "Unassigned"
PositiveItemsCounted(d) ==
    \A i \in 1..Len(GroupItems(d, "committed")) :
        LET item == GroupItems(d, "committed")[i]
        IN CountedPoints(item) > 0 =>
              \E k \in 1..Len(domainBreakdown(d)) :
                  domainBreakdown(d)[k].name = DomainOrUnassigned(item)

\* C19 as claimed: in every document the points of the entries of
\* domainBreakdown add up to at most the required points of the committed
\* group, and to exactly that when every committed item with required points
\* above 0 has a domain or is counted under "Unassigned".
C19_Original ==
    LET required == calcStats(data, "committed").required
        sum == Total(domainBreakdown(data))
    IN /\ IsNum(required)
       /\ sum <= required.num
       /\ PositiveItemsCounted(data) => sum = required.num

---------------------------------------------------------------------------
(* C20 *)

\* the sum of the field over the items that hold an ordinary number in it
RECURSIVE SumOfNumbers(_, _)
SumOfNumbers(items, field) ==
    IF Len(items) = 0 THEN 0
    ELSE (IF field \in DOMAIN Head(items) /\ IsNum(Head(items)[field])
          THEN Head(items)[field].num ELSE 0)
         + SumOfNumbers(Tail(items), field)

\* C20 as claimed: groupStats of a group is the sum of the required points
\* and the sum of the optional points of its items, an item whose field is
\* absent or is not a number counting as 0.
C20_Original ==
    \A g \in GroupIds :
        calcStats(data, g) =
            [required |-> JNum(SumOfNumbers(GroupItems(data, g), "requiredPoints")),
             optional |-> JNum(SumOfNumbers(GroupItems(data, g), "optionalPoints"))]

---------------------------------------------------------------------------
(* C21 *)

\* the capacity of the schedule in hundredths of a point: the velocity times
\* the multiplier, added over the sprints
RECURSIVE Capacity(_, _)
Capacity(d, n) ==
    IF n = 0 THEN 0 ELSE Capacity(d, n - 1) + d.velocity * d.sprints[n].multiplier

\* p is the integer nearest to n / m (m > 0), a half going up
Nearest(p, n, m) == (2 * p - 1) * m <= 2 * n /\ 2 * n < (2 * p + 1) * m

\* the three figures are what the claim's formulas give, roundings to the
\* nearest integer
CapacityFigures(d) ==
    LET capacity == Capacity(d, Len(d.sprints))
        required == calcStats(d, "committed").required.num
    IN /\ IsNum(committedPercent(d)) /\ IsNum(committedRemaining(d))
       /\ totalPlanningPoints(d) = capacity
       /\ IF capacity > 0
          THEN Nearest(committedPercent(d).num, 10000 * required, capacity)
          ELSE committedPercent(d).num = 0
       /\ Nearest(committedRemaining(d).num, capacity - 100 * required, 100)

---------------------------------------------------------------------------
(* C22 *)

\* the committed items filed under the label
ItemsOfDomain(d, name) ==
    SelectSeq(GroupItems(d, "committed"), LAMBDA item : DomainOrUnassigned(item) = name)

\* the labels of the committed items, "Unassigned" for an item without one
CommittedDomains(d) ==
    {DomainOrUnassigned(GroupItems(d, "committed")[i]) :
        i \in 1..Len(GroupItems(d, "committed"))}

\* C22 as claimed: domainBreakdown has one entry per domain of the committed
\* items ("Unassigned" for items without a domain) except the domains whose
\* points add up to 0; an entry's points are the sum of the required points
\* of the domain's items, its percent is round(points / sum of all entries'
\* points * 100), and the entries are in non-increasing order of points.
C22_Original ==
    LET entries == domainBreakdown(data)
    IN /\ \A i, j \in 1..Len(entries) : entries[i].name = entries[j].name => i = j
       /\ \A name \in CommittedDomains(data) :
             SumOfNumbers(ItemsOfDomain(data, name), "requiredPoints") # 0
                => \E i \in 1..Len(entries) : entries[i].name = name
       /\ \A i \in 1..Len(entries) :
             /\ entries[i].name \in CommittedDomains(data)
             /\ entries[i].points # 0
             /\ entries[i].points =
                   SumOfNumbers(ItemsOfDomain(data, entries[i].name), "requiredPoints")
             /\ Nearest(entries[i].percent, 100 * entries[i].points, Total(entries))
       /\ \A i \in 1..(Len(entries) - 1) : entries[i].points >= entries[i + 1].points

---------------------------------------------------------------------------
(* C23 *)

\* every entry of the map `before` is an entry of `after` with its color,
\* and getDomainColor returns for its label what it returned before
KeepsColors(before, after) ==
    \A label \in DOMAIN before :
        /\ label \in DOMAIN after
        /\ after[label] = before[label]
        /\ getDomainColor(after, label).color = getDomainColor(before, label).color

\* the labels of the items of the document
LabelsOf(d) ==
    {AllItems(d)[i].domain : i \in {i \in 1..Len(AllItems(d)) : HasDomain(AllItems(d)[i])}}

\* C23: the domain color map only grows: in every step of a session (an
\* update, an import, with the renders and the syncDomainColors they cause,
\* whether or not the storage takes the save) every label that has a color
\* keeps its entry and its color, and getDomainColor returns the same color
\* for it afterwards.
C23_ColorsOnlyGrow ==
    [][lastOp'.op # "load" => KeepsColors(domainColorsCache, domainColorsCache')]_vars

\* an update left the map with the color of a label that no item carries any
\* more, next to a label assigned later
C23_Witness ==
    /\ lastOp.op = "updateItem"
    /\ "D1" \in DOMAIN domainColorsCache /\ "D2" \in DOMAIN domainColorsCache
    /\ "D1" \notin LabelsOf(data)
    /\ ~crashed

---------------------------------------------------------------------------
(* C24 *)

\* color is what the claim assigns to a new label of the map: the first
\* color of the palette no entry uses, or, all being used, the one at the
\* size of the map modulo the length of the palette (counting from 0)
IsNextColor(color, map) ==
    LET used == {map[k] : k \in DOMAIN map}
        n == Len(ROYGBIV_COLORS)
    IN \E i \in 1..n :
          /\ color = ROYGBIV_COLORS[i]
          /\ IF \E j \in 1..n : ROYGBIV_COLORS[j] \notin used
             THEN ROYGBIV_COLORS[i] \notin used
                  /\ \A j \in 1..(i - 1) : ROYGBIV_COLORS[j] \in used
             ELSE i - 1 = Cardinality(DOMAIN map) % n

\* the labels `after` has more than `before` were assigned one after the
\* other, each with the color the claim gives it on the map so far
RECURSIVE AssignedInTurn(_, _)
AssignedInTurn(before, after) ==
    \/ DOMAIN after = DOMAIN before
    \/ \E label \in DOMAIN after \ DOMAIN before :
          /\ IsNextColor(after[label], before)
          /\ AssignedInTurn(Spread(before, [k \in {label} |-> after[label]]), after)

---------------------------------------------------------------------------
(* C25 *)

RECURSIVE SumPercent(_)
SumPercent(entries) ==
    IF Len(entries) = 0 THEN 0 ELSE Head(entries).percent + SumPercent(Tail(entries))

---------------------------------------------------------------------------
(* C26 *)

\* the ids of `ids` that also occur in `others`, in their order
Common(ids, others) ==
    SelectSeq(ids, LAMBDA id : \E i \in 1..Len(others) : others[i] = id)

\* the step leaves every group outside `groups`, the sprints and the velocity
\* as they were
OnlyGroups(groups) ==
    /\ \A h \in GroupIds \ groups : data'.items[h] = data.items[h]
    /\ data'.sprints = data.sprints
    /\ data'.velocity = data.velocity

---------------------------------------------------------------------------
(* C27 *)

\* the payload of the drag is an item of the document with its group
PayloadOfDocument(d, payload) ==
    \E g \in GroupIds : \E i \in 1..Len(GroupItems(d, g)) :
        payload = [item |-> GroupItems(d, g)[i], groupId |-> g]

---------------------------------------------------------------------------
(* C28 *)

\* the step is an update of an item the group holds
UpdatesItem == lastOp'.op = "updateItem" /\ lastOp'.case = "found"

\* the document after the step holds the item with the fields of the form
HoldsUpdate ==
    LET before == GroupItems(data, lastOp'.group)
        after == GroupItems(data', lastOp'.group)
    IN /\ Len(after) = Len(before)
       /\ \A i \in 1..Len(before) :
             IF before[i].id = lastOp'.id
             THEN Merged(before[i], lastOp'.updates, after[i])
             ELSE after[i] = before[i]

\* C28: a refused storage write is not propagated: an update made while the
\* storage refuses writes leaves the page running with the fully updated
\* document in memory and with every entry of the color map, the labels the
\* render newly colored included; and once the storage takes writes again an
\* update stores the whole current document and, when it colors a label, the
\* whole color map.
C28_FailedSave ==
    [][UpdatesItem =>
          /\ HoldsUpdate
          /\ ~crashed'
          /\ KeepsColors(domainColorsCache, domainColorsCache')
          /\ \A label \in LabelsOf(data') : HasColor(domainColorsCache', label)
          /\ ~storageFull =>
                /\ storage' = Stringify(data')
                /\ domainColorsCache' # domainColorsCache =>
                      colorStorage' = Json(domainColorsCache')]_vars

\* an update gave an item a new label while the storage refused writes: the
\* document in memory and its color map are ahead of what is stored
C28_Witness ==
    /\ lastOp.op = "updateItem"
    /\ storageFull
    /\ ~crashed
    /\ storage # Stringify(data)
    /\ "D2" \in LabelsOf(data)
    /\ "D2" \in DOMAIN domainColorsCache
    /\ colorStorage # Json(domainColorsCache)

---------------------------------------------------------------------------
(* C29 *)

\* C29 as claimed: whenever the effect has run for the current document (the
\* page is up after a load, a mutation or an import), every non-empty domain
\* label of an item of any group has an entry in the domain color map.
C29_Original ==
    ~crashed => \A label \in LabelsOf(data) : label \in DOMAIN domainColorsCache

---------------------------------------------------------------------------
(* C30 *)

\* `after` is `before` with the item put in at some position
PutsIn(before, item, after) ==
    /\ Len(after) = Len(before) + 1
    /\ \E k \in 1..Len(after) :
          /\ after[k] = item
          /\ DOMAIN after[k] = DOMAIN item
          /\ \A j \in 1..Len(before) : before[j] = IF j < k THEN after[j] ELSE after[j + 1]

====
